---- MODULE Spec2Model ----
(***************************************************************************)
(* Model of function_app.py: the HTTP handlers get_files_list and          *)
(* get_file_context of the business-lab function app.                      *)
(*                                                                         *)
(* Strings are sequences of one-character strings, so that str.endswith,   *)
(* str.split and ' '.join are computed character by character. A request   *)
(* is followed statement by statement through its handler: every call into *)
(* a collaborator (blob store, pandas, PyMuPDF, whisper, the file system)  *)
(* either returns or raises.                                               *)
(***************************************************************************)
EXTENDS Integers, Sequences, FiniteSets, TLC

\* ---------------------------------------------------------------- bounds
\* The word cap of the PDF branch is 5000 in the source (lines 168, 173);
\* the model runs the same code with a small cap so that documents on both
\* sides of the cap are enumerated.
WordLimit == 1
\* Largest number of pages of a modelled PDF document.
MaxPages == 2
\* Largest number of characters of a page's text.
MaxPageLen == 3
\* Largest number of blobs in the container.
MaxBlobs == 3
\* Largest number of data rows of a modelled CSV blob.
MaxRows == 2

\* ------------------------------------------------------ program constants
\* csv_data.head(600)
CsvRowLimit == 600

VARIABLES
    pc,               \* position of the request in its handler
    handler,          \* route the request was sent to
    file_name,        \* req.params.get('file'): [present, value]
    BLOB_STORAGE_CONNECTION_STRING,  \* module-level configuration
    container,        \* names of the blobs in 'business-labs' when listed
    blob_list,        \* order in which list_blobs() yielded them
    storeOps,         \* blob-store calls issued by the request, in order
    strategiesRun,    \* branches of the if/elif chain entered
    blob_data,        \* CSV branch: downloaded text, as lines
    doc,              \* PDF branch: page texts of the opened document
    docOpen,          \* the fitz document handle is open
    docOpened,        \* fitz.open has returned in this request
    full_text,        \* PDF branch: accumulated text
    page_num,         \* PDF branch: loop index
    pagesExtracted,   \* PDF branch: number of get_text() calls made
    tempExists,       \* the NamedTemporaryFile is on disk
    tempCreated,      \* the NamedTemporaryFile has been created
    context_data,     \* extracted text
    raised,           \* exception raised inside the try block ("" if none)
    propagated,       \* an exception left the handler
    responses         \* HttpResponse objects returned by the handler

vars == <<pc, handler, file_name, BLOB_STORAGE_CONNECTION_STRING, container,
          blob_list, storeOps, strategiesRun, blob_data, doc, docOpen,
          docOpened, full_text, page_num, pagesExtracted, tempExists,
          tempCreated, context_data, raised, propagated, responses>>

\* ------------------------------------------------------------ file names
n_csv    == <<"b", ".", "c", "s", "v">>
n_pdf    == <<"a", ".", "p", "d", "f">>
n_mp3    == <<"c", ".", "m", "p", "3">>
n_wav    == <<"d", ".", "w", "a", "v">>
n_upper  == <<"a", ".", "C", "S", "V">>
n_noext  == <<"a">>
n_docx   == <<"r", ".", "d", "o", "c", "x">>
n_double == <<"a", ".", "c", "s", "v", ".", "p", "d", "f">>
n_empty  == <<>>

FileNames == {n_csv, n_pdf, n_mp3, n_wav, n_upper, n_noext, n_docx, n_double,
              n_empty}

BlobNames == {n_csv, n_pdf, n_mp3, n_upper}

\* Values of req.params.get('file'): None when the parameter is absent.
FileParams == {[present |-> FALSE, value |-> <<>>]}
              \cup {[present |-> TRUE, value |-> n] : n \in FileNames}

\* Values of os.environ.get('BLOB_STORAGE_CONNECTION_STRING').
ConnectionStrings == {"None", "malformed", "valid"}

\* Names of the exception classes the collaborators raise; all of them are
\* subclasses of Exception.
ConnectionErrors == {"AttributeError", "ValueError"}
DownloadErrors == {"ResourceNotFoundError", "ServiceRequestError"}
DecodeErrors == {"UnicodeDecodeError"}
CsvErrors == {"EmptyDataError", "ParserError"}
PdfOpenErrors == {"FileDataError"}
PageErrors == {"RuntimeError"}
TempFileErrors == {"OSError"}
TranscribeErrors == {"RuntimeError"}
ListErrors == {"ResourceNotFoundError", "ClientAuthenticationError",
               "ServiceRequestError"}

ExceptionClasses == ConnectionErrors \cup DownloadErrors \cup DecodeErrors
                    \cup CsvErrors \cup PdfOpenErrors \cup PageErrors
                    \cup TempFileErrors \cup TranscribeErrors \cup ListErrors

\* ------------------------------------------------------- string functions
Min(a, b) == IF a <= b THEN a ELSE b

\* seq[:n]
Take(seq, n) == SubSeq(seq, 1, Min(n, Len(seq)))

\* `not file_name` is true of None and of the empty string.
TruthyNotNone(p) == p.present

Truthy(p) == p.present /\ p.value # <<>>

\* s.endswith(suffix)
endswith(s, suffix) ==
    /\ Len(s) >= Len(suffix)
    /\ SubSeq(s, Len(s) - Len(suffix) + 1, Len(s)) = suffix

\* suffix in s
contains(s, suffix) ==
    \E i \in 1..(Len(s) - Len(suffix) + 1) :
        SubSeq(s, i, i + Len(suffix) - 1) = suffix

\* s.lower(), on the letters the file names use
lower(s) ==
    [i \in 1..Len(s) |->
        CASE s[i] = "C" -> "c"
          [] s[i] = "S" -> "s"
          [] s[i] = "V" -> "v"
          [] OTHER -> s[i]]

ext_csv == <<".", "c", "s", "v">>
ext_pdf == <<".", "p", "d", "f">>
ext_mp3 == <<".", "m", "p", "3">>
ext_wav == <<".", "w", "a", "v">>

\* The if/elif chain written with `in` instead of endswith.
ClassifyContains(name) ==
    IF contains(name, ext_csv) THEN "csv"
    ELSE IF contains(name, ext_pdf) THEN "pdf"
    ELSE IF contains(name, ext_mp3) \/ contains(name, ext_wav) THEN "audio"
    ELSE "unsupported"

\* The if/elif chain applied to file_name.lower().
ClassifyIgnoreCase(name) ==
    IF endswith(lower(name), ext_csv) THEN "csv"
    ELSE IF endswith(lower(name), ext_pdf) THEN "pdf"
    ELSE IF endswith(lower(name), ext_mp3) \/ endswith(lower(name), ext_wav)
         THEN "audio"
    ELSE "unsupported"

\* The if/elif/else chain of get_file_context, first match wins.
Classify(name) ==
    IF endswith(name, ext_csv) THEN "csv"
    ELSE IF endswith(name, ext_pdf) THEN "pdf"
    ELSE IF endswith(name, ext_mp3) \/ endswith(name, ext_wav) THEN "audio"
    ELSE "unsupported"

\* Characters of a page text; " " is the whitespace character.
Chars == {"a", " "}

isspace(c) == c = " "

RECURSIVE SplitFrom(_, _, _, _)
SplitFrom(s, i, cur, out) ==
    IF i > Len(s)
    THEN IF cur = <<>> THEN out ELSE Append(out, cur)
    ELSE IF isspace(s[i])
         THEN SplitFrom(s, i + 1, <<>>,
                        IF cur = <<>> THEN out ELSE Append(out, cur))
         ELSE SplitFrom(s, i + 1, Append(cur, s[i]), out)

\* s.split(): the maximal runs of non-whitespace characters, in order.
split(s) == SplitFrom(s, 1, <<>>, <<>>)

RECURSIVE join(_)
\* ' '.join(words)
join(words) ==
    IF words = <<>> THEN <<>>
    ELSE IF Len(words) = 1 THEN words[1]
    ELSE words[1] \o <<" ">> \o join(Tail(words))

\* The loop's test with >= in place of >.
should_break_at_limit(text) == Len(split(text)) >= WordLimit

\* if len(full_text.split()) > 5000: break
should_break(text) == Len(split(text)) > WordLimit

\* The slice taken one word too long.
first_5000_words_plus_one(text) == join(Take(split(text), WordLimit + 1))

\* words = full_text.split(); ' '.join(words[:5000])
first_5000_words(text) == join(Take(split(text), WordLimit))

\* ------------------------------------------------------------- documents
PageTexts == UNION {[1..n -> Chars] : n \in 0..MaxPageLen}

\* What fitz.open can return: the texts of the document's pages, in order.
Docs == UNION {[1..n -> PageTexts] : n \in 0..MaxPages}

\* What content_as_text() can return: the lines of the blob.
CsvTexts == {<<>>} \cup {<<"h">> \o [i \in 1..n |-> "r"] : n \in 0..MaxRows}

\* pd.read_csv: the first line names the columns, the others are data rows.
read_csv(lines) == [columns |-> lines[1], rows |-> Tail(lines)]

\* DataFrame.head(n)
head(df, n) == [columns |-> df.columns, rows |-> Take(df.rows, n)]

\* DataFrame.to_string(index=False): header line, then one line per row.
to_string(df) == <<df.columns>> \o df.rows

\* What model.transcribe(...)['text'] can return.
Transcripts == {<<>>, <<"h", "i">>}

\* ------------------------------------------------------------- responses
\* json.dumps of a str: a JSON string.
json_dumps_str(s) == [kind |-> "json_string", value |-> s]

\* json.dumps of a list: a JSON array of the items in the list's order.
\* sort_keys orders the keys of dicts only and leaves lists as they are.
json_dumps_list(items, sort_keys) == [kind |-> "json_array", value |-> items]

\* A plain-text body, as the pieces the f-string or literal is made of.
text_body(pieces) == [kind |-> "text", value |-> pieces]

HttpResponse(body, status_code) == [status |-> status_code, body |-> body]

\* An except clause that names one exception class only.
CaughtValueErrorOnly(e) == e = "ValueError"

\* except Exception as e
Caught(e) == e \in ExceptionClasses

\* --------------------------------------------------- leaving the handler
\* `return resp`
Return(resp) ==
    /\ responses' = Append(responses, resp)
    /\ pc' = "done"
    /\ UNCHANGED <<raised, propagated>>

\* An exception e raised inside the try block: the except clause answers
\* 500 with f"Error: {e}"; an exception it does not catch leaves the handler.
Raise(e) ==
    /\ raised' = e
    /\ pc' = "done"
    /\ IF Caught(e)
       THEN /\ responses' = Append(responses,
                                   HttpResponse(text_body(<<"Error: ", e>>), 500))
            /\ propagated' = FALSE
       ELSE /\ responses' = responses
            /\ propagated' = TRUE

\* Execution goes on with the statement at `next`.
Goto(next) ==
    /\ pc' = next
    /\ UNCHANGED <<raised, propagated, responses>>

reqVars == <<handler, file_name>>
listVars == <<container, blob_list>>
pdfVars == <<doc, docOpen, docOpened, full_text, page_num, pagesExtracted>>
audioVars == <<tempExists, tempCreated>>

\* The orders in which the store can yield the blobs of S.
Enumerations(S) ==
    {f \in [1..Cardinality(S) -> S] : \A i, j \in DOMAIN f : i # j => f[i] # f[j]}

Containers == {S \in SUBSET BlobNames : Cardinality(S) <= MaxBlobs}

\* ------------------------------------------------------------------ Init
Init ==
    /\ pc = "idle"
    /\ handler = "none"
    /\ file_name = [present |-> FALSE, value |-> <<>>]
    /\ BLOB_STORAGE_CONNECTION_STRING \in ConnectionStrings
    /\ container = {}
    /\ blob_list = <<>>
    /\ storeOps = <<>>
    /\ strategiesRun = {}
    /\ blob_data = <<>>
    /\ doc = <<>>
    /\ docOpen = FALSE
    /\ docOpened = FALSE
    /\ full_text = <<>>
    /\ page_num = 0
    /\ pagesExtracted = 0
    /\ tempExists = FALSE
    /\ tempCreated = FALSE
    /\ context_data = <<>>
    /\ raised = ""
    /\ propagated = FALSE
    /\ responses = <<>>

\* ------------------------------------------------------- get_files_list
\* The whole handler: build the client, enumerate the container, answer.
get_files_list ==
    /\ pc = "idle"
    /\ handler' = "get_files_list"
    /\ UNCHANGED <<file_name, BLOB_STORAGE_CONNECTION_STRING, strategiesRun,
                   blob_data, pdfVars, audioVars, context_data>>
    /\ IF BLOB_STORAGE_CONNECTION_STRING # "valid"
       THEN /\ storeOps' = <<"from_connection_string">>
            /\ Raise(IF BLOB_STORAGE_CONNECTION_STRING = "None"
                     THEN "AttributeError" ELSE "ValueError")
            /\ UNCHANGED listVars
       ELSE /\ storeOps' = <<"from_connection_string", "get_container_client",
                             "list_blobs">>
            /\ \/ \E e \in ListErrors :
                    /\ Raise(e)
                    /\ UNCHANGED listVars
               \/ \E S \in Containers : \E order \in Enumerations(S) :
                    /\ container' = S
                    /\ blob_list' = order
                    /\ LET files_list == [i \in 1..Len(order) |-> order[i]]
                       IN Return(HttpResponse(
                              json_dumps_list(files_list, TRUE), 200))

\* ----------------------------------------------------- get_file_context
\* file_name = req.params.get('file'); if not file_name: return 400
ReadFileParam ==
    /\ pc = "idle"
    /\ \E p \in FileParams :
        /\ handler' = "get_file_context"
        /\ file_name' = p
        /\ IF ~Truthy(p)
           THEN Return(HttpResponse(
                    text_body(<<"File name parameter is missing.">>), 400))
           ELSE Goto("clients")
    /\ UNCHANGED <<BLOB_STORAGE_CONNECTION_STRING, listVars, storeOps,
                   strategiesRun, blob_data, pdfVars, audioVars, context_data>>

\* blob_service_client, container_client, blob_client; context_data = ''
BuildClients ==
    /\ pc = "clients"
    /\ IF BLOB_STORAGE_CONNECTION_STRING # "valid"
       THEN /\ storeOps' = Append(storeOps, "from_connection_string")
            /\ Raise(IF BLOB_STORAGE_CONNECTION_STRING = "None"
                     THEN "AttributeError" ELSE "ValueError")
            /\ UNCHANGED context_data
       ELSE /\ storeOps' = storeOps \o <<"from_connection_string",
                                         "get_container_client",
                                         "get_blob_client">>
            /\ context_data' = <<>>
            /\ Goto("dispatch")
    /\ UNCHANGED <<reqVars, BLOB_STORAGE_CONNECTION_STRING, listVars,
                   strategiesRun, blob_data, pdfVars, audioVars>>

\* The if/elif/else chain on the suffix of file_name.
Dispatch ==
    /\ pc = "dispatch"
    /\ LET kind == Classify(file_name.value)
       IN IF kind = "unsupported"
          THEN /\ Return(HttpResponse(
                      text_body(<<"Unsupported file type.">>), 403))
               /\ UNCHANGED strategiesRun
          ELSE /\ strategiesRun' = strategiesRun \cup {kind}
               /\ Goto(CASE kind = "csv" -> "csv_fetch"
                         [] kind = "pdf" -> "pdf_fetch"
                         [] kind = "audio" -> "audio_temp")
    /\ UNCHANGED <<reqVars, BLOB_STORAGE_CONNECTION_STRING, listVars, storeOps,
                   blob_data, pdfVars, audioVars, context_data>>

\* blob_data = blob_client.download_blob().content_as_text()
CsvFetch ==
    /\ pc = "csv_fetch"
    /\ storeOps' = Append(storeOps, "download_blob.content_as_text")
    /\ \/ \E e \in DownloadErrors \cup DecodeErrors :
            /\ Raise(e)
            /\ UNCHANGED blob_data
       \/ \E text \in CsvTexts :
            /\ blob_data' = text
            /\ Goto("csv_parse")
    /\ UNCHANGED <<reqVars, BLOB_STORAGE_CONNECTION_STRING, listVars,
                   strategiesRun, pdfVars, audioVars, context_data>>

\* csv_data = pd.read_csv(...); context_data = csv_data.head(600).to_string()
CsvParse ==
    /\ pc = "csv_parse"
    /\ \/ /\ blob_data = <<>>
          /\ Raise("EmptyDataError")
          /\ UNCHANGED context_data
       \/ /\ blob_data # <<>>
          /\ \/ /\ Raise("ParserError")
                /\ UNCHANGED context_data
             \/ /\ context_data' =
                       to_string(head(read_csv(blob_data), CsvRowLimit))
                /\ Goto("respond")
    /\ UNCHANGED <<reqVars, BLOB_STORAGE_CONNECTION_STRING, listVars, storeOps,
                   strategiesRun, blob_data, pdfVars, audioVars>>

\* blob_pdf_data = blob_client.download_blob().readall()
PdfFetch ==
    /\ pc = "pdf_fetch"
    /\ storeOps' = Append(storeOps, "download_blob.readall")
    /\ \/ \E e \in DownloadErrors : Raise(e)
       \/ Goto("pdf_open")
    /\ UNCHANGED <<reqVars, BLOB_STORAGE_CONNECTION_STRING, listVars,
                   strategiesRun, blob_data, pdfVars, audioVars, context_data>>

\* doc = fitz.open(stream=..., filetype="pdf"); full_text = ""; the loop's
\* first test of range(len(doc))
PdfOpen ==
    /\ pc = "pdf_open"
    /\ \/ /\ \E e \in PdfOpenErrors : Raise(e)
          /\ UNCHANGED pdfVars
       \/ \E d \in Docs :
            /\ doc' = d
            /\ docOpen' = TRUE
            /\ docOpened' = TRUE
            /\ full_text' = <<>>
            /\ page_num' = 0
            /\ UNCHANGED pagesExtracted
            /\ Goto(IF Len(d) > 0 THEN "pdf_page" ELSE "pdf_close")
    /\ UNCHANGED <<reqVars, BLOB_STORAGE_CONNECTION_STRING, listVars, storeOps,
                   strategiesRun, blob_data, audioVars, context_data>>

\* One iteration of the loop: full_text += doc[page_num].get_text(), then
\* the break test, then the loop's next test.
PdfPage ==
    /\ pc = "pdf_page"
    /\ pagesExtracted' = pagesExtracted + 1
    /\ \/ /\ \E e \in PageErrors : Raise(e)
          /\ UNCHANGED <<full_text, page_num>>
       \/ LET text == full_text \o doc[page_num + 1]
          IN /\ full_text' = text
             /\ IF should_break(text)
                THEN /\ page_num' = page_num
                     /\ Goto("pdf_close")
                ELSE /\ page_num' = page_num + 1
                     /\ Goto(IF page_num + 1 < Len(doc)
                             THEN "pdf_page" ELSE "pdf_close")
    /\ UNCHANGED <<reqVars, BLOB_STORAGE_CONNECTION_STRING, listVars, storeOps,
                   strategiesRun, blob_data, doc, docOpen, docOpened,
                   audioVars, context_data>>

\* doc.close(); words = full_text.split(); context_data = ' '.join(words[:5000])
PdfClose ==
    /\ pc = "pdf_close"
    /\ docOpen' = FALSE
    /\ context_data' = first_5000_words(full_text)
    /\ Goto("respond")
    /\ UNCHANGED <<reqVars, BLOB_STORAGE_CONNECTION_STRING, listVars, storeOps,
                   strategiesRun, blob_data, doc, docOpened, full_text,
                   page_num, pagesExtracted, audioVars>>

\* with tempfile.NamedTemporaryFile(delete=False) as temp_audio
AudioTemp ==
    /\ pc = "audio_temp"
    /\ \/ /\ \E e \in TempFileErrors : Raise(e)
          /\ UNCHANGED audioVars
       \/ /\ tempExists' = TRUE
          /\ tempCreated' = TRUE
          /\ Goto("audio_fetch")
    /\ UNCHANGED <<reqVars, BLOB_STORAGE_CONNECTION_STRING, listVars, storeOps,
                   strategiesRun, blob_data, pdfVars, context_data>>

\* with open(temp_audio.name, "wb") as audio_file: download and write.
\* delete=False: leaving the with blocks closes the file and keeps it.
AudioFetch ==
    /\ pc = "audio_fetch"
    /\ storeOps' = Append(storeOps, "download_blob.readall")
    /\ \/ \E e \in DownloadErrors : Raise(e)
       \/ Goto("audio_transcribe")
    /\ UNCHANGED <<reqVars, BLOB_STORAGE_CONNECTION_STRING, listVars,
                   strategiesRun, blob_data, pdfVars, audioVars, context_data>>

\* transcription = await get_audio_transcription(temp_audio.name);
\* os.remove(temp_audio.name); context_data = transcription
AudioTranscribe ==
    /\ pc = "audio_transcribe"
    /\ \/ /\ \E e \in TranscribeErrors : Raise(e)
          /\ UNCHANGED <<audioVars, context_data>>
       \/ \E transcription \in Transcripts :
            /\ tempExists' = FALSE
            /\ UNCHANGED tempCreated
            /\ context_data' = transcription
            /\ Goto("respond")
    /\ UNCHANGED <<reqVars, BLOB_STORAGE_CONNECTION_STRING, listVars, storeOps,
                   strategiesRun, blob_data, pdfVars>>

\* return func.HttpResponse(json.dumps(context_data), ..., status_code=200)
Respond ==
    /\ pc = "respond"
    /\ Return(HttpResponse(json_dumps_str(context_data), 200))
    /\ UNCHANGED <<reqVars, BLOB_STORAGE_CONNECTION_STRING, listVars, storeOps,
                   strategiesRun, blob_data, pdfVars, audioVars, context_data>>

Next ==
    \/ get_files_list
    \/ ReadFileParam
    \/ BuildClients
    \/ Dispatch
    \/ CsvFetch
    \/ CsvParse
    \/ PdfFetch
    \/ PdfOpen
    \/ PdfPage
    \/ PdfClose
    \/ AudioTemp
    \/ AudioFetch
    \/ AudioTranscribe
    \/ Respond

Spec == Init /\ [][Next]_vars

\* ====================================================== properties checked
Done == pc = "done"

Answered(status_code) ==
    /\ Done
    /\ Len(responses) = 1
    /\ responses[1].status = status_code

InFileContext == handler = "get_file_context"

\* The strategy the last four characters of a name stand for.
SuffixStrategy(name) ==
    LET tail4 == IF Len(name) >= 4 THEN SubSeq(name, Len(name) - 3, Len(name))
                 ELSE <<>>
    IN CASE tail4 = ext_csv -> "csv"
         [] tail4 = ext_pdf -> "pdf"
         [] tail4 \in {ext_mp3, ext_wav} -> "audio"
         [] OTHER -> "unsupported"

NonEmptyName == file_name.present /\ Len(file_name.value) > 0

IsFetch(op) == op \in {"download_blob.content_as_text", "download_blob.readall"}

Fetches == SelectSeq(storeOps, IsFetch)

\* Code point of a character of the blob names.
Ord(c) ==
    CASE c = "." -> 46 [] c = "3" -> 51 [] c = "C" -> 67 [] c = "S" -> 83
      [] c = "V" -> 86 [] c = "a" -> 97 [] c = "b" -> 98 [] c = "c" -> 99
      [] c = "d" -> 100 [] c = "f" -> 102 [] c = "m" -> 109 [] c = "p" -> 112
      [] c = "s" -> 115 [] c = "v" -> 118

RECURSIVE LexLeq(_, _)
\* s <= t in the order of Python's sorted() on strings
LexLeq(s, t) ==
    IF s = <<>> THEN TRUE
    ELSE IF t = <<>> THEN FALSE
    ELSE IF Ord(Head(s)) < Ord(Head(t)) THEN TRUE
    ELSE IF Ord(Head(s)) > Ord(Head(t)) THEN FALSE
    ELSE LexLeq(Tail(s), Tail(t))

IsSorted(items) ==
    \A i, j \in 1..Len(items) : i < j => LexLeq(items[i], items[j])

RECURSIVE PrefixText(_, _)
\* The texts of the first k pages of d, concatenated.
PrefixText(d, k) ==
    IF k = 0 THEN <<>> ELSE PrefixText(d, k - 1) \o d[k]

\* The text of all pages of d, concatenated.
AllPagesText(d) == PrefixText(d, Len(d))

PdfAnswered == Answered(200) /\ InFileContext /\ "pdf" \in strategiesRun

\* C1: a successful get_files_list response is a JSON array holding exactly
\* the container's blob names, in alphabetically sorted order, whatever the
\* order in which the store enumerated them.
C1_ListingSorted ==
    (Answered(200) /\ handler = "get_files_list") =>
        LET body == responses[1].body
        IN /\ body.kind = "json_array"
           /\ {body.value[i] : i \in 1..Len(body.value)} = container
           /\ Len(body.value) = Cardinality(container)
           /\ IsSorted(body.value)

\* C2: once the audio branch has created its temporary file, the file no
\* longer exists when the handler has returned, on every exit path.
C2_TempFileRemoved ==
    (Done /\ tempCreated) => ~tempExists

\* C3: once the PDF document has been opened, it is closed when the handler
\* has returned, on every exit path.
C3_DocClosed ==
    (Done /\ docOpened) => ~docOpen

\* C4: the body of every status-200 get_file_context response is the JSON
\* object {"content": <extracted text>}.
C4_ContentEnvelope ==
    (Answered(200) /\ InFileContext) =>
        /\ responses[1].body.kind = "json_object"
        /\ responses[1].body.value = <<"content", context_data>>

\* C5, as stated: a non-empty file name with none of the four suffixes is
\* answered 403, whatever the configuration of the blob store.
C5_UnsupportedAlways403 ==
    (Done /\ InFileContext /\ NonEmptyName
          /\ SuffixStrategy(file_name.value) = "unsupported") =>
        Answered(403)

\* C5, amended: for a non-empty file name with none of the four suffixes no
\* strategy runs and no blob is fetched; the answer is 403 with the
\* unsupported-file-type message when the connection string is valid, and
\* 500 from the client construction when it is unset or malformed.
C5_UnsupportedAfterClients ==
    (InFileContext /\ NonEmptyName
         /\ SuffixStrategy(file_name.value) = "unsupported") =>
        /\ strategiesRun = {}
        /\ Fetches = <<>>
        /\ Done =>
            IF BLOB_STORAGE_CONNECTION_STRING = "valid"
            THEN /\ Answered(403)
                 /\ responses[1].body = text_body(<<"Unsupported file type.">>)
                 /\ raised = ""
            ELSE /\ Answered(500)
                 /\ raised \in ConnectionErrors

\* A name that differs from a supported one in letter case only is
\* answered 403.
C5_Witness ==
    /\ Answered(403)
    /\ InFileContext
    /\ file_name.value = n_upper
    /\ storeOps # <<>>

\* C6: a missing or empty 'file' parameter is answered 400 and no blob-store
\* operation is issued.
C6_MissingParam ==
    (InFileContext /\ (~file_name.present \/ file_name.value = <<>>)) =>
        /\ storeOps = <<>>
        /\ Answered(400)
        /\ responses[1].body = text_body(<<"File name parameter is missing.">>)

\* The parameter is present and empty, and the request was answered.
C6_Witness ==
    /\ InFileContext
    /\ file_name.present
    /\ file_name.value = <<>>
    /\ Answered(400)

\* C7: the PDF output is the first WordLimit words of the document's whole
\* text joined by single spaces when the text has more words than that, all
\* of its words joined by single spaces otherwise, and never has more than
\* WordLimit words.
C7_PdfOutput ==
    PdfAnswered =>
        LET words == split(AllPagesText(doc))
        IN /\ Len(words) > WordLimit =>
                context_data = join(SubSeq(words, 1, WordLimit))
           /\ Len(words) <= WordLimit => context_data = join(words)
           /\ Len(split(context_data)) <= WordLimit
           /\ responses[1].body.value = context_data

\* A document with more words than the cap was answered.
C7_Witness ==
    /\ PdfAnswered
    /\ Len(split(AllPagesText(doc))) > WordLimit
    /\ Len(split(context_data)) = WordLimit

\* C8: when a step after parameter validation raises on a supported file
\* name, no exception leaves the handler; it returns one response, status
\* 500, whose body is made of the error's string and holds no extracted
\* content.
C8_ErrorAnswer ==
    (Done /\ InFileContext /\ NonEmptyName /\ raised # ""
          /\ SuffixStrategy(file_name.value) # "unsupported") =>
        /\ ~propagated
        /\ Answered(500)
        /\ responses[1].body = text_body(<<"Error: ", raised>>)

\* Page extraction raised after text had been accumulated.
C8_Witness ==
    /\ Answered(500)
    /\ InFileContext
    /\ raised = "RuntimeError"
    /\ "pdf" \in strategiesRun
    /\ full_text # <<>>

\* C9: at most one strategy runs per request, it is the one the name's
\* case-sensitive suffix stands for, and the only blob fetch issued is that
\* strategy's (decoded text for CSV, raw bytes for PDF and audio), at most
\* once.
C9_OneStrategy ==
    (InFileContext /\ NonEmptyName) =>
        LET kind == SuffixStrategy(file_name.value)
        IN /\ strategiesRun \subseteq ({kind} \ {"unsupported"})
           /\ Len(Fetches) <= 1
           /\ Len(Fetches) = 1 =>
                /\ strategiesRun = {kind}
                /\ Fetches[1] = IF kind = "csv"
                                THEN "download_blob.content_as_text"
                                ELSE "download_blob.readall"
           /\ Answered(200) => strategiesRun = {kind}

\* A name holding one supported extension and ending in another was
\* answered by the strategy of its ending.
C9_Witness ==
    /\ Answered(200)
    /\ InFileContext
    /\ file_name.value = n_double
    /\ strategiesRun = {"pdf"}
    /\ Fetches = <<"download_blob.readall">>

\* C10: the output of the loop with the early stop equals the first
\* WordLimit words of all pages concatenated, and no page is extracted once
\* the accumulated text has more than WordLimit words.
C10_EarlyStop ==
    /\ PdfAnswered =>
          context_data = join(Take(split(AllPagesText(doc)), WordLimit))
    /\ pagesExtracted >= 1 =>
          Len(split(PrefixText(doc, pagesExtracted - 1))) <= WordLimit

\* The loop stopped before the document's last page.
C10_Witness ==
    /\ PdfAnswered
    /\ pagesExtracted < Len(doc)
    /\ Len(split(full_text)) > WordLimit
====
